---- MODULE Spec2Model ----
(***************************************************************************)
(* Label-driven email reconciliation (camwest/ai-email-checker).           *)
(*                                                                         *)
(* The mailbox is the only durable state: every envelope is a set of       *)
(* Gmail labels (himalaya folders) plus the Seen flag.  A classification   *)
(* cycle lists the unread inbox, classifies thread by thread with an       *)
(* individual fallback, and moves daily-brief mail under the               *)
(* ai-email-checker/daily-brief label.  A briefing cycle lists that label, *)
(* publishes one GitHub issue and swaps the label to daily-brief-done.     *)
(***************************************************************************)
EXTENDS Naturals, Integers, Sequences, FiniteSets, TLC

\* ------------------------------------------------------------------ bounds
MaxEnv == 2

Ids == 1..MaxEnv

\* ------------------------------------------------------------- label names
INBOX == "INBOX"
ReadyForBriefing == "ai-email-checker/daily-brief"
BriefingDone == "ai-email-checker/daily-brief-done"

REQUIRED_LABELS == <<ReadyForBriefing, BriefingDone>>

Folders == {INBOX, ReadyForBriefing, BriefingDone}

\* Conversations an arriving message can belong to (the mail provider's thread).
ThreadIds == {"t1", "t2"}

VARIABLES
  present,    \* ids of the envelopes that exist in the mailbox
  thread,     \* thread[id]: the conversation the envelope belongs to
  folders,    \* folders[id]: the labels (folders) the envelope is in
  seen,       \* seen[id]: the envelope carries the Seen flag
  published,  \* ids that were source envelopes of an issue GitHub created
  cls,        \* the classification cycle (position, work lists, cycle log)
  brf,        \* the briefing cycle (position, report, markDone result)
  grp,        \* ThreadGrouper: the envelopes given to it and its clusters
  nrm,        \* normalizeSubject: a subject, its key and the key of the key
  agg,        \* generateBriefing: the envelopes of the account and the entries
  ovl,        \* two overlapping cycles over one mailbox
  lbl,        \* the folders of the account and two runs of the CLI
  cfg,        \* one start of a program under one environment
  call,       \* one call to the mail store, the classifier or GitHub
  arc,        \* one run of archive-emails or read-email on an argument list
  mcp,        \* the MCP server: the inbox listing, the last request and its response
  bov         \* two briefing cycles over one mailbox and the reports they published

\* The mailbox and its cycles; the inputs and results of the pure functions.
mailbox == <<present, thread, folders, seen, published, cls, brf>>
pure == <<grp, nrm, agg, ovl, lbl, cfg, call, arc, mcp, bov>>

vars == <<mailbox, pure>>

\* ------------------------------------------------------------ sequences
RECURSIVE SetToSeq(_)
\* The envelope listing order: ascending id.
SetToSeq(S) ==
  IF S = {} THEN <<>>
  ELSE LET m == CHOOSE x \in S : \A y \in S : x <= y
       IN <<m>> \o SetToSeq(S \ {m})

Range(s) == { s[i] : i \in 1..Len(s) }

\* ------------------------------------------------------------ mail store
\* Filter for unread emails (those without "Seen" flag) of the inbox listing.
getUnreadEmails(pr, fs, sn) ==
  SetToSeq({ id \in pr : INBOX \in fs[id] /\ ~sn[id] })

\* himalaya message read <id>, without --preview: returns the message of the
\* default folder and applies the Seen flag to its envelope.
readMessage(fs, sn, ids) ==
  [ id \in Ids |-> IF id \in ids /\ INBOX \in fs[id] THEN TRUE ELSE sn[id] ]

\* Mutant of applyLabel: the error of the move is not caught.
applyLabel_rethrows(fs, emailId, labelName, ok) ==
  IF ok /\ INBOX \in fs[emailId]
  THEN [ folders |-> [ fs EXCEPT ![emailId] = (@ \ {INBOX}) \cup {labelName} ],
         moved |-> TRUE, thrown |-> FALSE ]
  ELSE [ folders |-> fs, moved |-> FALSE, thrown |-> TRUE ]

\* Mutant of applyLabel: the message is moved to All Mail, as archive-emails
\* does, so the envelope leaves the inbox without the label.
applyLabel_archives(fs, emailId, labelName, ok) ==
  IF ok /\ INBOX \in fs[emailId]
  THEN [ folders |-> [ fs EXCEPT ![emailId] = @ \ {INBOX} ],
         moved |-> TRUE, thrown |-> FALSE ]
  ELSE [ folders |-> fs, moved |-> FALSE, thrown |-> FALSE ]

\* Mutant of applyLabel: the message is copied (applyLabelKeepInInbox), so the
\* label is added and the envelope stays in the inbox.
applyLabel_copies(fs, emailId, labelName, ok) ==
  IF ok /\ INBOX \in fs[emailId]
  THEN [ folders |-> [ fs EXCEPT ![emailId] = @ \cup {labelName} ],
         moved |-> TRUE, thrown |-> FALSE ]
  ELSE [ folders |-> fs, moved |-> FALSE, thrown |-> FALSE ]

\* Mutant of applyLabel: the label is added whether or not the message is
\* still in the folder it is moved from.
applyLabel_blind(fs, emailId, labelName, ok) ==
  IF ok
  THEN [ folders |-> [ fs EXCEPT ![emailId] = (@ \ {INBOX}) \cup {labelName} ],
         moved |-> TRUE, thrown |-> FALSE ]
  ELSE [ folders |-> fs, moved |-> FALSE, thrown |-> FALSE ]

\* himalaya message move <id> <label>: moves the message out of the default
\* folder (INBOX) into the label's folder.  ok is the outcome of the command;
\* the command also fails when the id is not in INBOX.  The error is caught
\* and only logged.
applyLabel(fs, emailId, labelName, ok) ==
  IF ok /\ INBOX \in fs[emailId]
  THEN [ folders |-> [ fs EXCEPT ![emailId] = (@ \ {INBOX}) \cup {labelName} ],
         moved |-> TRUE, thrown |-> FALSE ]
  ELSE [ folders |-> fs, moved |-> FALSE, thrown |-> FALSE ]

\* ------------------------------------------------- classification cycle
ThreadCategories == {"needs-response", "daily-brief", "mixed", "error"}
EmailCategories == {"needs-response", "daily-brief", "error"}

RECURSIVE getEmailThreads(_, _)
\* The batch fetched as conversations: one sequence of ids per thread, in the
\* order of each thread's first message.
getEmailThreads(ids, th) ==
  IF ids = <<>> THEN <<>>
  ELSE LET k == th[Head(ids)]
           same == SelectSeq(ids, LAMBDA x : th[x] = k)
           rest == SelectSeq(ids, LAMBDA x : th[x] # k)
       IN <<same>> \o getEmailThreads(rest, th)

\* Mutant of classifyEmail: a failed classification defaults to daily-brief.
classifyEmail_defaults(out) ==
  IF out = "error" THEN "daily-brief" ELSE out

\* classifyEmail: the category of one email; a failure of the reasoning
\* service is thrown to the caller.
classifyEmail(out) ==
  IF out = "error" THEN "throw" ELSE out

\* Mutant of classifyAndProcessThread: a failed thread classification is
\* treated as daily-brief.
classifyAndProcessThread_defaults(out, latest) ==
  IF out = "mixed" THEN classifyEmail_defaults(latest)
  ELSE IF out = "error" THEN "daily-brief" ELSE out

\* classifyAndProcessThread: the switch on the thread's category; a mixed
\* thread takes the category of its latest message (processMixedThread).
classifyAndProcessThread(out, latest) ==
  IF out = "mixed" THEN classifyEmail(latest)
  ELSE IF out = "error" THEN "throw" ELSE out

RECURSIVE moveThreadToLabel(_, _, _, _)
\* Archive the thread under the label: applyLabel for each message of the
\* thread, in order; okset are the ids whose move command succeeds.
moveThreadToLabel(fs, ms, labelName, okset) ==
  IF ms = <<>>
  THEN [ folders |-> fs, moved |-> {}, failed |-> {}, thrown |-> FALSE ]
  ELSE LET r == applyLabel(fs, Head(ms), labelName, Head(ms) \in okset)
       IN IF r.thrown
          THEN [ folders |-> r.folders, moved |-> {}, failed |-> {Head(ms)},
                 thrown |-> TRUE ]
          ELSE LET rest == moveThreadToLabel(r.folders, Tail(ms), labelName, okset)
               IN [ folders |-> rest.folders,
                    moved |-> (IF r.moved THEN {Head(ms)} ELSE {}) \cup rest.moved,
                    failed |-> (IF r.moved THEN {} ELSE {Head(ms)}) \cup rest.failed,
                    thrown |-> rest.thrown ]

\* The envelope carries one of the required labels.
Labelled(fs, id) == ReadyForBriefing \in fs[id] \/ BriefingDone \in fs[id]

\* The mailbox after a decision was applied successfully: needs-response is
\* no mutation (keepThreadInInbox), daily-brief is applyLabel.
applyDecision(fs, id, category) ==
  IF category = "daily-brief"
  THEN applyLabel(fs, id, ReadyForBriefing, TRUE).folders
  ELSE fs

ClsEnded == {"idle", "completed", "aborted", "crashed"}

\* The position and the record of the cycle; nr are the envelopes decided
\* needs-response so far, in this cycle or an earlier one.
ClsIdle ==
  [ pc |-> "idle", batch |-> <<>>, threads |-> <<>>, queue |-> <<>>,
    errT |-> {}, errF |-> {}, db |-> {}, moved |-> {}, failed |-> {},
    again |-> {}, nr |-> {} ]

\* A message arrives: the mail transport creates the envelope in the inbox,
\* unread; ids are handed out in increasing order.
Arrive ==
  \E t \in ThreadIds :
    LET id == Cardinality(present) + 1
    IN /\ id \in Ids
       /\ present' = present \cup {id}
       /\ thread' = [ thread EXCEPT ![id] = t ]
       /\ folders' = [ folders EXCEPT ![id] = {INBOX} ]
       /\ seen' = [ seen EXCEPT ![id] = FALSE ]
       /\ UNCHANGED <<published, cls, brf, pure>>

\* processEmails, start: the unread inbox is fetched, as threads.
ClsStart ==
  /\ cls.pc \in ClsEnded
  /\ LET batch == getUnreadEmails(present, folders, seen)
     IN cls' = [ ClsIdle EXCEPT
                   !.pc = IF batch = <<>> THEN "completed" ELSE "threads",
                   !.batch = batch,
                   !.threads = getEmailThreads(batch, thread),
                   !.nr = cls.nr ]
  /\ UNCHANGED <<present, thread, folders, seen, published, brf, pure>>

\* processEmails, thread pass: classifyAndProcessThread for the next thread.
\* An exception leaves the loop for the individual fallback over the batch.
ClsThread ==
  /\ cls.pc = "threads"
  /\ cls.threads # <<>>
  /\ LET t == Head(cls.threads)
         members == Range(t)
     IN \E out \in ThreadCategories, latest \in EmailCategories,
           okset \in SUBSET members :
          LET cat == classifyAndProcessThread(out, latest)
              failedCls == out = "error" \/ (out = "mixed" /\ latest = "error")
              r == IF cat = "daily-brief"
                   THEN moveThreadToLabel(folders, t, ReadyForBriefing, okset)
                   ELSE [ folders |-> folders, moved |-> {}, failed |-> {},
                          thrown |-> FALSE ]
              toFallback == cat = "throw" \/ r.thrown
              rest == Tail(cls.threads)
          IN /\ out # "mixed" => latest = "needs-response"
             /\ cat # "daily-brief" => okset = members
             /\ seen' = readMessage(folders, seen, members)
             /\ folders' = r.folders
             /\ cls' = [ cls EXCEPT
                  !.pc = IF toFallback THEN "fallback"
                         ELSE IF rest = <<>> THEN "completed" ELSE "threads",
                  !.threads = IF toFallback THEN <<>> ELSE rest,
                  !.queue = IF toFallback THEN cls.batch ELSE <<>>,
                  !.errT = IF failedCls THEN @ \cup members ELSE @,
                  !.db = IF cat = "daily-brief" THEN @ \cup members ELSE @,
                  !.moved = @ \cup r.moved,
                  !.failed = @ \cup r.failed,
                  !.again = IF cat = "daily-brief"
                            THEN @ \cup { m \in members : Labelled(folders, m) }
                            ELSE @,
                  !.nr = IF cat = "needs-response" THEN @ \cup members ELSE @ ]
  /\ UNCHANGED <<present, thread, published, brf, pure>>

\* processEmails, fallback pass: classifyAndProcessEmail for the next email of
\* the batch.  An exception here leaves processEmails.
ClsEmail ==
  /\ cls.pc = "fallback"
  /\ cls.queue # <<>>
  /\ LET e == Head(cls.queue)
     IN \E out \in EmailCategories, ok \in BOOLEAN :
          LET cat == classifyEmail(out)
              r == IF cat = "daily-brief"
                   THEN applyLabel(folders, e, ReadyForBriefing, ok)
                   ELSE [ folders |-> folders, moved |-> FALSE, thrown |-> FALSE ]
              aborts == cat = "throw" \/ r.thrown
              rest == Tail(cls.queue)
          IN /\ cat # "daily-brief" => ok
             /\ seen' = readMessage(folders, seen, {e})
             /\ folders' = r.folders
             /\ cls' = [ cls EXCEPT
                  !.pc = IF aborts THEN "aborted"
                         ELSE IF rest = <<>> THEN "completed" ELSE "fallback",
                  !.queue = IF aborts THEN <<>> ELSE rest,
                  !.errF = IF out = "error" THEN @ \cup {e} ELSE @,
                  !.db = IF cat = "daily-brief" THEN @ \cup {e} ELSE @,
                  !.moved = IF r.moved THEN @ \cup {e} ELSE @,
                  !.failed = IF cat = "daily-brief" /\ ~r.moved THEN @ \cup {e} ELSE @,
                  !.again = IF cat = "daily-brief" /\ Labelled(folders, e)
                            THEN @ \cup {e} ELSE @,
                  !.nr = IF cat = "needs-response" THEN @ \cup {e} ELSE @ ]
  /\ UNCHANGED <<present, thread, published, brf, pure>>

\* The classification run is killed between two steps (crash, deadline).
ClsCrash ==
  /\ cls.pc \in {"threads", "fallback"}
  /\ cls' = [ cls EXCEPT !.pc = "crashed", !.threads = <<>>, !.queue = <<>> ]
  /\ UNCHANGED <<present, thread, folders, seen, published, brf, pure>>

\* ------------------------------------------------------- briefing cycle
\* A repo argument as repo.split('/') sees it: the sequence of its segments.
DefaultRepo == <<"camwest", "ai-email-briefings">>
\* split never returns an empty sequence: <<>> stands for an omitted argument.
Omitted == <<>>
RepoArgs == { Omitted, <<"o", "r">>, <<"o">>, <<"o", "">>, <<"", "r">>,
              <<"o", "r", "x">> }

\* Mutant of create_github_issue: the catch block reports success.
create_github_issue_swallows(repoArg, apiOk) ==
  LET repo == IF repoArg = Omitted THEN DefaultRepo ELSE repoArg
      owner == IF Len(repo) >= 1 THEN repo[1] ELSE ""
      repoName == IF Len(repo) >= 2 THEN repo[2] ELSE ""
      valid == owner # "" /\ repoName # ""
  IN [ success |-> TRUE, isError |-> FALSE, request |-> valid,
       created |-> IF valid /\ apiOk THEN <<owner, repoName>> ELSE <<>> ]

\* The create_github_issue tool: repo defaults to camwest/ai-email-briefings,
\* is split at '/', and an empty owner or repo name is an error; otherwise the
\* issue is requested from GitHub (apiOk: GitHub creates it).  Every error is
\* caught and returned as a value.
create_github_issue(repoArg, apiOk) ==
  LET repo == IF repoArg = Omitted THEN DefaultRepo ELSE repoArg
      owner == IF Len(repo) >= 1 THEN repo[1] ELSE ""
      repoName == IF Len(repo) >= 2 THEN repo[2] ELSE ""
      valid == owner # "" /\ repoName # ""
  IN IF valid /\ apiOk
     THEN [ success |-> TRUE, isError |-> FALSE, request |-> TRUE,
            created |-> <<owner, repoName>> ]
     ELSE [ success |-> FALSE, isError |-> TRUE, request |-> valid,
            created |-> <<>> ]

\* The fetch that lists every envelope under a workflow label.
listByLabel_everyLabel(pr, fs, labelName) == { id \in pr : Labelled(fs, id) }

\* Fetch: all emails with the "daily-brief" label.
listByLabel(pr, fs, labelName) == { id \in pr : labelName \in fs[id] }

\* Mutant of markDone: the done label is added and the ready label is kept.
markDone_keepsReady(fs, id, ok) ==
  IF ok /\ ReadyForBriefing \in fs[id]
  THEN [ folders |-> [ fs EXCEPT ![id] = @ \cup {BriefingDone} ],
         succeeded |-> TRUE ]
  ELSE [ folders |-> fs, succeeded |-> FALSE ]

\* Mutant of markDone: every envelope of the same thread is swapped as well.
markDone_wholeLabel(fs, id, ok) ==
  IF ok /\ ReadyForBriefing \in fs[id]
  THEN [ folders |-> [ x \in Ids |->
                         IF ReadyForBriefing \in fs[x]
                         THEN (fs[x] \ {ReadyForBriefing}) \cup {BriefingDone}
                         ELSE fs[x] ],
         succeeded |-> TRUE ]
  ELSE [ folders |-> fs, succeeded |-> FALSE ]

\* Mutant of markDone: a failed mutation is reported as succeeded.
markDone_silent(fs, id, ok) ==
  IF ok /\ ReadyForBriefing \in fs[id]
  THEN [ folders |-> [ fs EXCEPT ![id] = (@ \ {ReadyForBriefing}) \cup {BriefingDone} ],
         succeeded |-> TRUE ]
  ELSE [ folders |-> fs, succeeded |-> TRUE ]

\* markDone for one id of the given set: the label daily-brief is swapped for
\* daily-brief-done; ok is the outcome of the underlying mutation, which also
\* fails when the envelope does not carry daily-brief.
markDone(fs, id, ok) ==
  IF ok /\ ReadyForBriefing \in fs[id]
  THEN [ folders |-> [ fs EXCEPT ![id] = (@ \ {ReadyForBriefing}) \cup {BriefingDone} ],
         succeeded |-> TRUE ]
  ELSE [ folders |-> fs, succeeded |-> FALSE ]

BrfEnded == {"idle", "done", "failed", "crashed"}

BrfIdle ==
  [ pc |-> "idle", report |-> {}, queue |-> <<>>, succeeded |-> {},
    failed |-> {}, prev |-> {} ]

\* Briefing workflow, fetch and generate: the report covers every envelope
\* that carries daily-brief now.  prev keeps the report of the previous
\* cycle when that cycle's publish failed.
BrfStart ==
  /\ brf.pc \in BrfEnded
  /\ brf' = [ BrfIdle EXCEPT
                !.pc = "publish",
                !.report = listByLabel(present, folders, ReadyForBriefing),
                !.prev = IF brf.pc = "failed" THEN brf.report ELSE {} ]
  /\ UNCHANGED <<present, thread, folders, seen, published, cls, pure>>

\* Briefing workflow, deliver: create_github_issue with the report; the
\* labels are updated only when the tool returned success.
BrfPublish ==
  /\ brf.pc = "publish"
  /\ \E repoArg \in RepoArgs, apiOk \in BOOLEAN :
       LET r == create_github_issue(repoArg, apiOk)
       IN /\ ~r.request => apiOk
          /\ published' = IF r.created # <<>> THEN published \cup brf.report
                          ELSE published
          /\ brf' = [ brf EXCEPT
                        !.pc = IF r.success
                               THEN (IF brf.report = {} THEN "done" ELSE "mark")
                               ELSE "failed",
                        !.queue = IF r.success THEN SetToSeq(brf.report) ELSE <<>> ]
  /\ UNCHANGED <<present, thread, folders, seen, cls, pure>>

\* Briefing workflow, cleanup: markDone for the next id of the report.
BrfMark ==
  /\ brf.pc = "mark"
  /\ brf.queue # <<>>
  /\ LET id == Head(brf.queue)
         rest == Tail(brf.queue)
     IN \E ok \in BOOLEAN :
          LET r == markDone(folders, id, ok)
          IN /\ folders' = r.folders
             /\ brf' = [ brf EXCEPT
                           !.pc = IF rest = <<>> THEN "done" ELSE "mark",
                           !.queue = rest,
                           !.succeeded = IF r.succeeded THEN @ \cup {id} ELSE @,
                           !.failed = IF r.succeeded THEN @ ELSE @ \cup {id} ]
  /\ UNCHANGED <<present, thread, seen, published, cls, pure>>

\* The briefing run is killed between two steps (crash, deadline).
BrfCrash ==
  /\ brf.pc \in {"publish", "mark"}
  /\ brf' = [ brf EXCEPT !.pc = "crashed", !.queue = <<>> ]
  /\ UNCHANGED <<present, thread, folders, seen, published, cls, pure>>

\* ---------------------------------------------------------- ThreadGrouper
MaxGroupLen == 3
MaxDate == 1

\* A subject is a sequence of tokens: a reply/forward marker, a blank or a word.
Space == " "

Lower(t) ==
  CASE t = "Re:" -> "re:"
    [] t = "RE:" -> "re:"
    [] t = "Fwd:" -> "fwd:"
    [] t = "FW:" -> "fw:"
    [] t = "Lunch" -> "lunch"
    [] t = "Invoice" -> "invoice"
    [] OTHER -> t

\* /^(Re:|Fwd?:|RE:|FW:)/i matches the marker tokens in any letter case.
IsMarker(t) == Lower(t) \in {"re:", "fwd:", "fw:"}

RECURSIVE DropLeadingSpaces(_)
DropLeadingSpaces(s) ==
  IF s # <<>> /\ Head(s) = Space THEN DropLeadingSpaces(Tail(s)) ELSE s

RECURSIVE DropTrailingSpaces(_)
DropTrailingSpaces(s) ==
  IF s # <<>> /\ s[Len(s)] = Space
  THEN DropTrailingSpaces(SubSeq(s, 1, Len(s) - 1))
  ELSE s

RECURSIVE CollapseSpaces(_)
CollapseSpaces(s) ==
  IF Len(s) < 2 THEN s
  ELSE IF s[1] = Space /\ s[2] = Space THEN CollapseSpaces(Tail(s))
  ELSE <<s[1]>> \o CollapseSpaces(Tail(s))

\* normalizeSubject: the pattern is anchored at the start of the string, so
\* replace removes one leading marker and the blanks after it; then runs of
\* blanks become one blank, the ends are trimmed and the text is lowercased.
normalizeSubject(subject) ==
  LET stripped == IF subject # <<>> /\ IsMarker(Head(subject))
                  THEN DropLeadingSpaces(Tail(subject))
                  ELSE subject
      trimmed == DropTrailingSpaces(DropLeadingSpaces(CollapseSpaces(stripped)))
  IN [ i \in 1..Len(trimmed) |-> Lower(trimmed[i]) ]

RECURSIVE InsertByDate(_, _)
\* Insert e after every element whose date is not later (stable).
InsertByDate(sorted, e) ==
  IF sorted = <<>> THEN <<e>>
  ELSE IF e.date < Head(sorted).date THEN <<e>> \o sorted
  ELSE <<Head(sorted)>> \o InsertByDate(Tail(sorted), e)

RECURSIVE SortByDate(_)
\* emails.sort((a, b) => date(a) - date(b)): ascending, stable.
SortByDate(emails) ==
  IF emails = <<>> THEN <<>>
  ELSE InsertByDate(SortByDate(SubSeq(emails, 1, Len(emails) - 1)),
                    emails[Len(emails)])

RECURSIVE ThreadMap(_)
\* The Map of groupEmailsByThread as its entries, in insertion order: one
\* <<threadKey, emails>> per normalized subject, emails in input order.
ThreadMap(emails) ==
  IF emails = <<>> THEN <<>>
  ELSE LET k == normalizeSubject(Head(emails).subject)
           same == SelectSeq(emails, LAMBDA e : normalizeSubject(e.subject) = k)
           rest == SelectSeq(emails, LAMBDA e : normalizeSubject(e.subject) # k)
       IN <<[threadKey |-> k, emails |-> same]>> \o ThreadMap(rest)

\* Mutant of ToThread: the emails stay in the order of the listing.
ToThread_unsorted(entry) ==
  [ threadKey |-> entry.threadKey, emails |-> entry.emails,
    latestEmail |-> entry.emails[Len(entry.emails)] ]

ToThread(entry) ==
  LET sorted == SortByDate(entry.emails)
  IN [ threadKey |-> entry.threadKey, emails |-> sorted,
       latestEmail |-> sorted[Len(sorted)] ]

\* Mutant of groupEmailsByThread: the entries of one email are kept.
groupEmailsByThread_keepsSingles(emails) ==
  LET entries == ThreadMap(emails)
  IN [ i \in 1..Len(entries) |-> ToThread(entries[i]) ]

\* groupEmailsByThread: group by normalized subject, keep only the entries of
\* more than one email, sort each by date and take the last as latestEmail.
groupEmailsByThread(emails) ==
  LET entries == SelectSeq(ThreadMap(emails), LAMBDA en : Len(en.emails) > 1)
  IN [ i \in 1..Len(entries) |-> ToThread(entries[i]) ]

\* Subjects the grouped envelopes are drawn from.
GroupSubjects ==
  { <<"Lunch">>, <<"Re:", Space, "Lunch">>, <<"Invoice">>,
    <<"RE:", Space, "Re:", Space, "Lunch">>, <<"lunch", Space>> }

GrpIdle == [ pc |-> "input", input |-> <<>>, output |-> <<>> ]

\* One more envelope of the listing that will be grouped.
GrpAdd ==
  /\ grp.pc = "input"
  /\ Len(grp.input) < MaxGroupLen
  /\ \E subject \in GroupSubjects, date \in 0..MaxDate :
       grp' = [ grp EXCEPT !.input =
                  Append(@, [ id |-> Len(@) + 1, subject |-> subject,
                              date |-> date ]) ]
  /\ UNCHANGED <<mailbox, nrm, agg, ovl, lbl, cfg, call, arc, mcp, bov>>

\* groupEmailsByThread is applied to the listing.
GrpGroup ==
  /\ grp.pc = "input"
  /\ grp' = [ grp EXCEPT !.pc = "grouped",
                         !.output = groupEmailsByThread(grp.input) ]
  /\ UNCHANGED <<mailbox, nrm, agg, ovl, lbl, cfg, call, arc, mcp, bov>>

GrpNext == GrpAdd \/ GrpGroup

\* ------------------------------------------------------ normalizeSubject
MaxSubjectLen == 4

\* The tokens subjects are made of.
SubjectTokens == { "Re:", "RE:", "Fwd:", "FW:", Space, "Lunch" }

\* send-reply: the subject of the reply to a message with this subject.
replySubject(originalSubject) ==
  IF Len(originalSubject) >= 2 /\ originalSubject[1] = "RE:"
     /\ originalSubject[2] = Space
  THEN originalSubject
  ELSE <<"RE:", Space>> \o originalSubject

NrmIdle == [ pc |-> "input", subject |-> <<>>, key |-> <<>>, again |-> <<>>,
             reply |-> <<>> ]

\* One more token of the subject.
NrmAppend ==
  /\ nrm.pc = "input"
  /\ Len(nrm.subject) < MaxSubjectLen
  /\ \E t \in SubjectTokens : nrm' = [ nrm EXCEPT !.subject = Append(@, t) ]
  /\ UNCHANGED <<mailbox, grp, agg, ovl, lbl, cfg, call, arc, mcp, bov>>

\* The subject is normalized, its key is normalized again, and the subject
\* of the reply to it is normalized.
NrmNormalize ==
  /\ nrm.pc = "input"
  /\ nrm' = [ nrm EXCEPT !.pc = "normalized",
                         !.key = normalizeSubject(nrm.subject),
                         !.again = normalizeSubject(normalizeSubject(nrm.subject)),
                         !.reply = normalizeSubject(replySubject(nrm.subject)) ]
  /\ UNCHANGED <<mailbox, grp, agg, ovl, lbl, cfg, call, arc, mcp, bov>>

NrmNext == NrmAppend \/ NrmNormalize

\* ------------------------------------------------------ generateBriefing
MaxAggLen == 3

\* The thread keys and the places of the envelopes of the account.
AggKeys == { "lunch", "invoice" }
AggPlaces == { INBOX, ReadyForBriefing, BriefingDone }

\* Fetch of the briefing workflow: the emails with the daily-brief label, in
\* the order of the listing.
getProcessedEmails(mail) ==
  SelectSeq(mail, LAMBDA e : e.place = ReadyForBriefing)

RECURSIVE groupBy_latestFirst(_)
\* Mutant of groupBy: a key seen again moves its group to the front.
groupBy_latestFirst(emails) ==
  IF emails = <<>> THEN <<>>
  ELSE LET init == SubSeq(emails, 1, Len(emails) - 1)
           e == emails[Len(emails)]
           before == groupBy_latestFirst(init)
           mine == SelectSeq(before, LAMBDA g : g.threadKey = e.threadKey)
           others == SelectSeq(before, LAMBDA g : g.threadKey # e.threadKey)
       IN IF mine = <<>>
          THEN Append(before, [threadKey |-> e.threadKey, emails |-> <<e>>])
          ELSE <<[threadKey |-> e.threadKey,
                  emails |-> Append(mine[1].emails, e)]>> \o others

RECURSIVE groupBy(_)
\* groupBy(emails, 'threadKey'): one group per thread key, in the order in
\* which the keys first appear, each holding its emails in listing order.
groupBy(emails) ==
  IF emails = <<>> THEN <<>>
  ELSE LET k == Head(emails).threadKey
           same == SelectSeq(emails, LAMBDA e : e.threadKey = k)
           rest == SelectSeq(emails, LAMBDA e : e.threadKey # k)
       IN <<[threadKey |-> k, emails |-> same]>> \o groupBy(rest)

\* Mutant of generateBriefing: every group gets the summary of its first email.
generateBriefing_firstOnly(emails) ==
  LET groupedByThread == groupBy(emails)
  IN [ i \in 1..Len(groupedByThread) |->
         [ kind |-> "individual", threadKey |-> groupedByThread[i].threadKey,
           emails |-> <<groupedByThread[i].emails[1]>> ] ]

\* generateBriefing: a conversation summary for a group of several emails,
\* an individual summary of its one email otherwise, group after group.
generateBriefing(emails) ==
  LET groupedByThread == groupBy(emails)
  IN [ i \in 1..Len(groupedByThread) |->
         LET threadEmails == groupedByThread[i].emails
         IN IF Len(threadEmails) > 1
            THEN [ kind |-> "conversation",
                   threadKey |-> groupedByThread[i].threadKey,
                   emails |-> threadEmails ]
            ELSE [ kind |-> "individual",
                   threadKey |-> groupedByThread[i].threadKey,
                   emails |-> <<threadEmails[1]>> ] ]

AggIdle == [ pc |-> "input", mail |-> <<>>, entries |-> <<>> ]

\* One more envelope of the account, in listing order.
AggAdd ==
  /\ agg.pc = "input"
  /\ Len(agg.mail) < MaxAggLen
  /\ \E k \in AggKeys, date \in 0..MaxDate, place \in AggPlaces :
       agg' = [ agg EXCEPT !.mail =
                  Append(@, [ id |-> Len(@) + 1, threadKey |-> k,
                              date |-> date, place |-> place ]) ]
  /\ UNCHANGED <<mailbox, grp, nrm, ovl, lbl, cfg, call, arc, mcp, bov>>

\* The briefing is generated from the processed emails.
AggGenerate ==
  /\ agg.pc = "input"
  /\ agg' = [ agg EXCEPT !.pc = "generated",
                         !.entries = generateBriefing(getProcessedEmails(agg.mail)) ]
  /\ UNCHANGED <<mailbox, grp, nrm, ovl, lbl, cfg, call, arc, mcp, bov>>

AggNext == AggAdd \/ AggGenerate

\* --------------------------------------------------- thread update handling
\* Mutant of moveThreadFromBriefToInbox: the briefed messages of the thread
\* are moved back to the inbox as well.
moveThreadFromBriefToInbox_alsoDone(fs, ms, ok) ==
  IF ok
  THEN [ id \in Ids |->
           IF id \in ms /\ Labelled(fs, id) THEN {INBOX} ELSE fs[id] ]
  ELSE fs

\* moveThreadFromBriefToInbox: the messages of the thread that are under the
\* daily-brief label are moved back to the inbox.
moveThreadFromBriefToInbox(fs, ms, ok) ==
  IF ok
  THEN [ id \in Ids |->
           IF id \in ms /\ ReadyForBriefing \in fs[id]
           THEN (fs[id] \ {ReadyForBriefing}) \cup {INBOX}
           ELSE fs[id] ]
  ELSE fs

\* handleNewReplyInThread: a reply arrived in a thread that was processed
\* before; the thread is classified again and, when it now needs a response,
\* moved from the daily-brief label back to the inbox.
handleNewReplyInThread ==
  \E t \in ThreadIds, out \in ThreadCategories, ok \in BOOLEAN :
    LET members == { id \in present : thread[id] = t }
    IN /\ \E id \in members : Labelled(folders, id)
       /\ \E id \in members : INBOX \in folders[id] /\ ~Labelled(folders, id) /\ ~seen[id]
       /\ out # "needs-response" => ok
       /\ seen' = readMessage(folders, seen, members)
       /\ folders' = IF out = "needs-response"
                     THEN moveThreadFromBriefToInbox(folders, members, ok)
                     ELSE folders
       /\ UNCHANGED <<present, thread, published, cls, brf, pure>>

\* ------------------------------------------------------ overlapping cycles
\* A cycle as the run that executes it sees it: its workflow, the category
\* the classification gives each envelope, and the envelope (0: none) whose
\* label command fails.
Cycles ==
  [ kind : {"classification"},
    category : [Ids -> {"needs-response", "daily-brief"}],
    fails : Ids \cup {0} ]
  \cup
  [ kind : {"briefing"},
    category : {[ id \in Ids |-> "needs-response" ]},
    fails : Ids \cup {0} ]

\* Fetch: the unread inbox for classification, the daily-brief label for the
\* briefing.
cycleFetch(c, st) ==
  IF c.kind = "classification"
  THEN getUnreadEmails(Ids, st.fs, st.sn)
  ELSE SetToSeq(listByLabel(Ids, st.fs, ReadyForBriefing))

\* The step of a cycle on one fetched envelope: classification reads the
\* message and applies the label for daily-brief, the briefing (its issue
\* created) swaps the label.
cycleStep(c, st, id) ==
  IF c.kind = "classification"
  THEN [ fs |-> IF c.category[id] = "daily-brief"
                THEN applyLabel(st.fs, id, ReadyForBriefing, id # c.fails).folders
                ELSE st.fs,
         sn |-> readMessage(st.fs, st.sn, {id}) ]
  ELSE [ fs |-> markDone(st.fs, id, id # c.fails).folders, sn |-> st.sn ]

RECURSIVE cycleSteps(_, _, _)
cycleSteps(c, st, queue) ==
  IF queue = <<>> THEN st
  ELSE cycleSteps(c, cycleStep(c, st, Head(queue)), Tail(queue))

\* A cycle run from its fetch to its end with no other cycle running.
cycleAlone(c, st) == cycleSteps(c, st, cycleFetch(c, st))

OvlIdle ==
  [ pc |-> "setup",
    first |-> [ fs |-> [ id \in Ids |-> {INBOX} ], sn |-> [ id \in Ids |-> FALSE ] ],
    now |-> [ fs |-> [ id \in Ids |-> {INBOX} ], sn |-> [ id \in Ids |-> FALSE ] ],
    cycle |-> << >>, run |-> << >> ]

\* The mailbox the two cycles start on and the two cycles: every envelope is
\* unread in the inbox or under one of the two labels.
OvlSetup ==
  /\ ovl.pc = "setup"
  /\ \E fs \in [Ids -> {{INBOX}, {ReadyForBriefing}, {BriefingDone}}],
        a \in Cycles, b \in Cycles :
       LET st == [ fs |-> fs, sn |-> [ id \in Ids |-> FALSE ] ]
       IN ovl' = [ pc |-> "running", first |-> st, now |-> st,
                   cycle |-> <<a, b>>,
                   run |-> << [ pc |-> "waiting", queue |-> <<>> ],
                              [ pc |-> "waiting", queue |-> <<>> ] >> ]
  /\ UNCHANGED <<mailbox, grp, nrm, agg, lbl, cfg, call, arc, mcp, bov>>

\* One of the two cycles fetches its envelopes.
OvlFetch ==
  /\ ovl.pc = "running"
  /\ \E i \in 1..2 :
       /\ ovl.run[i].pc = "waiting"
       /\ LET queue == cycleFetch(ovl.cycle[i], ovl.now)
          IN ovl' = [ ovl EXCEPT
                        !.run[i] = [ pc |-> IF queue = <<>> THEN "ended" ELSE "running",
                                     queue |-> queue ] ]
  /\ UNCHANGED <<mailbox, grp, nrm, agg, lbl, cfg, call, arc, mcp, bov>>

\* One of the two cycles processes its next envelope.
OvlStep ==
  /\ ovl.pc = "running"
  /\ \E i \in 1..2 :
       /\ ovl.run[i].pc = "running"
       /\ LET queue == ovl.run[i].queue
          IN ovl' = [ ovl EXCEPT
                        !.now = cycleStep(ovl.cycle[i], ovl.now, Head(queue)),
                        !.run[i] = [ pc |-> IF Tail(queue) = <<>> THEN "ended"
                                            ELSE "running",
                                     queue |-> Tail(queue) ] ]
  /\ UNCHANGED <<mailbox, grp, nrm, agg, lbl, cfg, call, arc, mcp, bov>>

OvlNext == OvlSetup \/ OvlFetch \/ OvlStep

\* ------------------------------------------------------ ensureLabelsExist
\* The runs of the CLI that may overlap.
Runs == {"a", "b"}

\* A run before it starts: main has not called ensureLabelsExist yet.
RunIdle ==
  [ pc |-> "idle", existingFolders |-> {}, labels |-> <<>>, error |-> "none" ]

LblIdle ==
  [ pc |-> "setup", folders |-> {}, run |-> [ r \in Runs |-> RunIdle ] ]

\* himalaya folder add <label>: creates the folder; the command fails when
\* the folder exists already, and may fail for any other reason (ok).
folderAdd(fs, label, ok) ==
  IF label \in fs THEN [ folders |-> fs, error |-> "folder exists" ]
  ELSE IF ok THEN [ folders |-> fs \cup {label}, error |-> "none" ]
  ELSE [ folders |-> fs, error |-> "command failed" ]

\* The account the runs start on: any of the required labels may exist.
LblSetup ==
  /\ lbl.pc = "setup"
  /\ \E fs \in SUBSET Range(REQUIRED_LABELS) :
       lbl' = [ lbl EXCEPT !.pc = "running", !.folders = fs ]
  /\ UNCHANGED <<mailbox, grp, nrm, agg, ovl, cfg, call, arc, mcp, bov>>

\* main, step 1, first half: ensureLabelsExist lists the existing folders.
LblList ==
  /\ lbl.pc = "running"
  /\ \E r \in Runs :
       /\ lbl.run[r].pc \in {"idle", "fetched", "exited"}
       /\ lbl' = [ lbl EXCEPT !.run[r] =
                     [ pc |-> "ensuring", existingFolders |-> lbl.folders,
                       labels |-> REQUIRED_LABELS, error |-> "none" ] ]
  /\ UNCHANGED <<mailbox, grp, nrm, agg, ovl, cfg, call, arc, mcp, bov>>

\* ensureLabelsExist, loop: the next required label is created when the
\* listing does not have it.  An error of the command is logged and thrown
\* again, and main exits with status 1.
LblEnsure ==
  /\ lbl.pc = "running"
  /\ \E r \in Runs, ok \in BOOLEAN :
       LET run == lbl.run[r]
           label == Head(run.labels)
           missing == label \notin run.existingFolders
           added == folderAdd(lbl.folders, label, ok)
       IN /\ run.pc = "ensuring"
          /\ ~missing => ok
          /\ IF missing /\ added.error # "none"
             THEN lbl' = [ lbl EXCEPT
                    !.run[r] = [ run EXCEPT !.pc = "exited", !.labels = <<>>,
                                            !.error = added.error ] ]
             ELSE lbl' = [ lbl EXCEPT
                    !.folders = IF missing THEN added.folders ELSE @,
                    !.run[r] = [ run EXCEPT
                       !.pc = IF Tail(run.labels) = <<>> THEN "ensured"
                              ELSE "ensuring",
                       !.labels = Tail(run.labels) ] ]
  /\ UNCHANGED <<mailbox, grp, nrm, agg, ovl, cfg, call, arc, mcp, bov>>

\* main, step 2: the unread emails are fetched.
LblFetch ==
  /\ lbl.pc = "running"
  /\ \E r \in Runs :
       /\ lbl.run[r].pc = "ensured"
       /\ lbl' = [ lbl EXCEPT !.run[r].pc = "fetched" ]
  /\ UNCHANGED <<mailbox, grp, nrm, agg, ovl, cfg, call, arc, mcp, bov>>

LblNext == LblSetup \/ LblList \/ LblEnsure \/ LblFetch

\* ---------------------------------------------------- configuration check
\* The environment variables the programs read, and what a variable can be:
\* not set, set to the empty string, or set to a value.
EnvVars == {"GMAIL_EMAIL", "GMAIL_APP_PASSWORD", "GMAIL_DISPLAY_NAME",
            "GITHUB_TOKEN"}
EnvValues == {"unset", "empty", "value"}
Programs == {"archive-emails", "read-email", "send-reply", "mcp-server",
             "cli", "fetch-emails-for-archive"}

\* The variables a program tests before it does anything else.
requiredEnvVars(program) ==
  CASE program \in {"archive-emails", "read-email", "send-reply"} ->
         {"GMAIL_EMAIL", "GMAIL_APP_PASSWORD", "GMAIL_DISPLAY_NAME"}
    [] program = "mcp-server" ->
         {"GMAIL_EMAIL", "GMAIL_APP_PASSWORD", "GITHUB_TOKEN"}
    [] program = "cli" -> {"GMAIL_EMAIL", "GMAIL_APP_PASSWORD"}
    [] OTHER -> {"GMAIL_APP_PASSWORD"}

\* !process.env[varName]: an unset variable and an empty one are both missing.
missingEnvVars(program, env) ==
  { v \in requiredEnvVars(program) : env[v] # "value" }

\* The exit status of a process that has not exited.
NotExited == -1

\* The check that only reports the missing variable and goes on.
validateEnv_warns(program, env) == NotExited

\* The check at the top of each program: process.exit(1) on a missing
\* variable, otherwise the program goes on.
validateEnv(program, env) ==
  IF missingEnvVars(program, env) # {} THEN 1 ELSE NotExited

\* What a program that passed the check issues: himalaya commands, and for
\* the MCP server also the request to GitHub.
Issues(program) ==
  IF program = "mcp-server" THEN {"himalaya", "github"} ELSE {"himalaya"}

CfgIdle == [ pc |-> "idle", program |-> "cli",
             env |-> [ v \in EnvVars |-> "unset" ],
             exit |-> NotExited, issued |-> {} ]

\* A program is started under some environment.
CfgStart ==
  /\ cfg.pc = "idle"
  /\ \E program \in Programs, env \in [EnvVars -> EnvValues] :
       cfg' = [ CfgIdle EXCEPT !.pc = "started", !.program = program,
                               !.env = env ]
  /\ UNCHANGED <<mailbox, grp, nrm, agg, ovl, lbl, call, arc, mcp, bov>>

\* The program tests its environment.
CfgValidate ==
  /\ cfg.pc = "started"
  /\ LET status == validateEnv(cfg.program, cfg.env)
     IN  cfg' = [ cfg EXCEPT !.exit = status,
                    !.pc = IF status = 1 THEN "exited" ELSE "running" ]
  /\ UNCHANGED <<mailbox, grp, nrm, agg, ovl, lbl, call, arc, mcp, bov>>

\* The program runs a himalaya command or sends a request to GitHub.
CfgIssue ==
  /\ cfg.pc = "running"
  /\ \E c \in Issues(cfg.program) \ cfg.issued :
       cfg' = [ cfg EXCEPT !.issued = @ \cup {c} ]
  /\ UNCHANGED <<mailbox, grp, nrm, agg, ovl, lbl, call, arc, mcp, bov>>

CfgNext == CfgStart \/ CfgValidate \/ CfgIssue

\* ------------------------------------------------------ failing calls
\* The calls the program makes to himalaya, the classifier and GitHub, and
\* what the service answers to an attempt.
MaxAnswers == 3
Calls == {"list_unread_emails", "create_github_issue", "getUnreadEmails",
          "ensureLabelsExist", "applyLabel", "classifyThread"}
Answers == {"ok", "transient", "permanent"}

\* The delay of the retry strategy: Math.min(1000 * 2^retryCount, 30000).
retryDelay(retryCount) ==
  IF 1000 * (2 ^ retryCount) < 30000 THEN 1000 * (2 ^ retryCount) ELSE 30000

\* What the catch block around a call does with the error: the MCP tools
\* return an error result, the CLI functions log and rethrow (the process
\* exits with status 1), applyLabel only warns, and a classifier failure sends
\* processEmails to its fallback pass.
catchOutcome(op) ==
  CASE op \in {"list_unread_emails", "create_github_issue"} -> "error_result"
    [] op \in {"getUnreadEmails", "ensureLabelsExist"} -> "thrown"
    [] op = "applyLabel" -> "swallowed"
    [] OTHER -> "fallback"

CallIdle == [ pc |-> "idle", op |-> "applyLabel", answers |-> <<"ok">>,
              attempts |-> 0, delays |-> <<>>, error |-> "none",
              outcome |-> "none" ]

\* A call is made; the service will answer its attempts as in answers.
CallStart ==
  /\ call.pc = "idle"
  /\ \E op \in Calls,
        answers \in UNION { [1..n -> Answers] : n \in 1..MaxAnswers } :
       call' = [ CallIdle EXCEPT !.pc = "try", !.op = op,
                                 !.answers = answers ]
  /\ UNCHANGED <<mailbox, grp, nrm, agg, ovl, lbl, cfg, arc, mcp, bov>>

\* The try block: one attempt. A failure goes to the catch block.
CallAttempt ==
  /\ call.pc = "try"
  /\ LET answer == call.answers[call.attempts + 1]
     IN  call' = [ call EXCEPT
                     !.attempts = @ + 1,
                     !.error = IF answer = "ok" THEN "none" ELSE answer,
                     !.outcome = IF answer = "ok" THEN "ok" ELSE "none",
                     !.pc = IF answer = "ok" THEN "returned" ELSE "catch" ]
  /\ UNCHANGED <<mailbox, grp, nrm, agg, ovl, lbl, cfg, arc, mcp, bov>>

\* The catch block: the error is handled as the call's catch does, whatever
\* its kind; no catch block makes another attempt.
CallCatch ==
  /\ call.pc = "catch"
  /\ call' = [ call EXCEPT !.pc = "returned",
                           !.outcome = catchOutcome(call.op) ]
  /\ UNCHANGED <<mailbox, grp, nrm, agg, ovl, lbl, cfg, arc, mcp, bov>>

CallNext == CallStart \/ CallAttempt \/ CallCatch

\* ------------------------------------------- archive-emails and read-email
\* The command lines of the two scripts: up to MaxArgs arguments, each an
\* account flag, an account name or an email id.
MaxArgs == 3
AccountFlags == {"-a", "--account"}
ArgTokens == AccountFlags \cup {"work", "17", "42"}
ArgLists == UNION { [1..n -> ArgTokens] : n \in 0..MaxArgs }
Scripts == {"archive-emails", "read-email"}
AllMail == "[Gmail]/All Mail"

\* No account: null without a flag, undefined when the first flag is the
\* last argument; if (account) takes both as the default account.
Null == "null"

\* The argument after the first account flag.
account(args) ==
  IF \E i \in 1..Len(args) : args[i] \in AccountFlags
  THEN LET first == CHOOSE i \in 1..Len(args) :
                      /\ args[i] \in AccountFlags
                      /\ \A j \in 1..(i - 1) : args[j] \notin AccountFlags
       IN  IF first + 1 <= Len(args) THEN args[first + 1] ELSE Null
  ELSE Null

\* The filter that drops the flags but keeps the account names after them.
keepArg_flagsOnly(args, index) == args[index] \notin AccountFlags

\* The predicate of args.filter(...): not a flag and not following one.
keepArg(args, index) ==
  /\ args[index] \notin AccountFlags
  /\ index = 1 \/ args[index - 1] \notin AccountFlags

RECURSIVE filterFrom(_, _)
filterFrom(args, index) ==
  IF index > Len(args) THEN <<>>
  ELSE (IF keepArg(args, index) THEN <<args[index]>> ELSE <<>>)
         \o filterFrom(args, index + 1)

\* const emailIds = args.filter(...), in the order of the arguments.
emailIds(args) == filterFrom(args, 1)

\* How the himalaya command of a script can end: exit code 0, a non-zero exit
\* code handed back as a result, or a thrown shell error.
CommandResults == {"ok", "nonzero", "throws"}

\* The himalaya command line of a script for an account and ids.
himalayaCommand(script, acc, ids) ==
  IF script = "archive-emails"
  THEN [ verb |-> "move", account |-> acc,
         from |-> INBOX, to |-> AllMail, ids |-> ids ]
  ELSE [ verb |-> "read", account |-> acc,
         from |-> Null, to |-> Null, ids |-> <<ids[1]>> ]

\* What archive-emails prints once the move has ended.
archiveReport_alwaysSuccess(result) == {"success"}

archiveReport(result) ==
  CASE result = "ok" -> {"success"}
    [] result = "nonzero" -> {"failed"}
    [] OTHER -> {"error"}

ArcIdle == [ pc |-> "idle", script |-> "archive-emails", args |-> <<>>,
             account |-> Null, emailIds |-> <<>>, commands |-> <<>>,
             result |-> "none", printed |-> {}, exit |-> NotExited ]

\* A script is run on a command line.
ArcStart ==
  /\ arc.pc = "idle"
  /\ \E script \in Scripts, args \in ArgLists :
       arc' = [ ArcIdle EXCEPT !.pc = "parse", !.script = script,
                               !.args = args ]
  /\ UNCHANGED <<mailbox, grp, nrm, agg, ovl, lbl, cfg, call, mcp, bov>>

\* The arguments are split into account and ids; the script exits with
\* status 1 when no id is left, read-email also when more than one is.
ArcParse ==
  /\ arc.pc = "parse"
  /\ LET ids == emailIds(arc.args)
         bad == \/ Len(ids) = 0
                \/ arc.script = "read-email" /\ Len(ids) > 1
     IN  arc' = [ arc EXCEPT
                    !.account = account(arc.args),
                    !.emailIds = ids,
                    !.printed = IF Len(ids) = 0 THEN {"no-ids", "usage"}
                                ELSE IF bad THEN {"only-one"} ELSE {},
                    !.exit = IF bad THEN 1 ELSE NotExited,
                    !.pc = IF bad THEN "exited" ELSE "command" ]
  /\ UNCHANGED <<mailbox, grp, nrm, agg, ovl, lbl, cfg, call, mcp, bov>>

\* The himalaya command is run and its end reported. archive-emails ends
\* normally whatever the result; read-email exits with status 1 on an error.
ArcCommand ==
  /\ arc.pc = "command"
  /\ \E result \in CommandResults :
       /\ arc.script = "read-email" => result # "nonzero"
       /\ arc' = [ arc EXCEPT
            !.commands = Append(@, himalayaCommand(arc.script, arc.account,
                                                   arc.emailIds)),
            !.result = result,
            !.printed = IF arc.script = "archive-emails"
                        THEN archiveReport(result)
                        ELSE IF result = "ok" THEN {"message"} ELSE {"error"},
            !.exit = IF arc.script = "read-email" /\ result # "ok"
                     THEN 1 ELSE 0,
            !.pc = "exited" ]
  /\ UNCHANGED <<mailbox, grp, nrm, agg, ovl, lbl, cfg, call, mcp, bov>>

ArcNext == ArcStart \/ ArcParse \/ ArcCommand

\* ------------------------------------------------------------ MCP server
\* The listing of himalaya envelope list: listing[i] is TRUE when the i-th
\* envelope carries the Seen flag (its id is its position).  Short listings
\* with every combination of flags, and listings longer than the default
\* limit with at most one read envelope.
MaxListing == 3
MaxRequests == 2
DefaultMaxEmails == 50
Listings ==
  UNION { [1..n -> BOOLEAN] : n \in 0..MaxListing }
    \cup { [ i \in 1..(DefaultMaxEmails + n) |-> i = k ] :
              n \in 1..MaxListing, k \in 0..1 }

\* The arguments of a list_unread_emails call: <<>> without max_emails,
\* <<n>> with max_emails = n.
MaxEmailsArgs ==
  {<<>>} \cup { <<n>> : n \in (-2..MaxListing) \cup {DefaultMaxEmails + 1} }

\* How the himalaya command of the tool can end.
HimalayaResults == {"ok", "error", "badjson"}

\* (args)?.max_emails || 50: an omitted max_emails and 0 both give 50.
maxEmails(args) ==
  IF args = <<>> THEN DefaultMaxEmails
  ELSE IF args[1] = 0 THEN DefaultMaxEmails ELSE args[1]

\* emails.filter(no Seen flag): the positions of the unread envelopes.
RECURSIVE unreadFrom(_, _)
unreadFrom(listing, i) ==
  IF i > Len(listing) THEN <<>>
  ELSE (IF listing[i] THEN <<>> ELSE <<i>>) \o unreadFrom(listing, i + 1)

\* Array.prototype.slice(0, end): a negative end counts from the end of the
\* array, an end past the array is the length of the array.
slice(xs, end) ==
  LET stop == IF end < 0
              THEN (IF Len(xs) + end < 0 THEN 0 ELSE Len(xs) + end)
              ELSE (IF end > Len(xs) THEN Len(xs) ELSE end)
  IN  SubSeq(xs, 1, stop)

\* The catch block that answers an empty inbox instead of the error.
list_unread_emails_hidesError(args, listing, himalaya) ==
  LET unreadEmails ==
        IF himalaya = "ok"
        THEN slice(unreadFrom(listing, 1), maxEmails(args)) ELSE <<>>
  IN  [ success |-> TRUE, isError |-> FALSE,
        count |-> Len(unreadEmails), emails |-> unreadEmails ]

\* The list_unread_emails tool: the unread envelopes of the listing, cut to
\* maxEmails; a himalaya error or unparseable output is caught and returned
\* as an error result.
list_unread_emails(args, listing, himalaya) ==
  IF himalaya # "ok"
  THEN [ success |-> FALSE, isError |-> TRUE, count |-> 0, emails |-> <<>> ]
  ELSE LET unreadEmails == slice(unreadFrom(listing, 1), maxEmails(args))
       IN  [ success |-> TRUE, isError |-> FALSE,
             count |-> Len(unreadEmails), emails |-> unreadEmails ]

NoResponse == [ success |-> FALSE, isError |-> FALSE, count |-> 0,
                emails |-> <<>> ]

McpIdle == [ pc |-> "idle", listing |-> <<>>, served |-> 0, tool |-> "none",
             args |-> <<>>, failure |-> "none", response |-> NoResponse,
             request |-> FALSE, created |-> <<>>, raised |-> FALSE,
             issues |-> 0, afterFailure |-> FALSE ]

\* The server is started; the inbox has some listing.
McpStart ==
  /\ mcp.pc = "idle"
  /\ \E listing \in Listings :
       mcp' = [ McpIdle EXCEPT !.pc = "serving", !.listing = listing ]
  /\ UNCHANGED <<mailbox, grp, nrm, agg, ovl, lbl, cfg, call, arc, bov>>

\* Whether the request just served ended in a failure.
Failed(m) == m.failure # "none" \/ m.raised

\* A list_unread_emails request.
McpList ==
  /\ mcp.pc = "serving"
  /\ mcp.served < MaxRequests
  /\ \E args \in MaxEmailsArgs, himalaya \in HimalayaResults :
       LET r == list_unread_emails(args, mcp.listing, himalaya)
       IN  mcp' = [ mcp EXCEPT
                      !.served = @ + 1, !.tool = "list_unread_emails",
                      !.args = args,
                      !.failure = IF himalaya = "ok" THEN "none" ELSE himalaya,
                      !.response = r, !.request = FALSE, !.created = <<>>,
                      !.raised = FALSE, !.afterFailure = Failed(mcp) ]
  /\ UNCHANGED <<mailbox, grp, nrm, agg, ovl, lbl, cfg, call, arc, bov>>

\* A create_github_issue request.
McpIssue ==
  /\ mcp.pc = "serving"
  /\ mcp.served < MaxRequests
  /\ \E repoArg \in RepoArgs, apiOk \in BOOLEAN :
       LET r == create_github_issue(repoArg, apiOk)
       IN  /\ ~r.request => apiOk
           /\ mcp' = [ mcp EXCEPT
                      !.served = @ + 1, !.tool = "create_github_issue",
                      !.args = repoArg,
                      !.failure = IF ~r.request THEN "badrepo"
                                  ELSE IF ~apiOk THEN "github" ELSE "none",
                      !.response = [ NoResponse EXCEPT
                                       !.success = r.success,
                                       !.isError = r.isError ],
                      !.request = r.request, !.created = r.created,
                      !.raised = FALSE,
                      !.issues = IF r.created # <<>> THEN @ + 1 ELSE @,
                      !.afterFailure = Failed(mcp) ]
  /\ UNCHANGED <<mailbox, grp, nrm, agg, ovl, lbl, cfg, call, arc, bov>>

\* A request that names no tool of the server: the handler throws.
McpUnknown ==
  /\ mcp.pc = "serving"
  /\ mcp.served < MaxRequests
  /\ mcp' = [ mcp EXCEPT
                !.served = @ + 1, !.tool = "unknown", !.args = <<>>,
                !.failure = "none", !.response = NoResponse,
                !.request = FALSE, !.created = <<>>, !.raised = TRUE,
                !.afterFailure = Failed(mcp) ]
  /\ UNCHANGED <<mailbox, grp, nrm, agg, ovl, lbl, cfg, call, arc, bov>>

McpNext == McpStart \/ McpList \/ McpIssue \/ McpUnknown

\* -------------------------------------------- overlapping briefing cycles
BovIdle ==
  [ pc |-> "setup", fs |-> [ id \in Ids |-> {INBOX} ],
    run |-> [ i \in 1..2 |->
              [ pc |-> "waiting", report |-> {}, queue |-> <<>>,
                since |-> {} ] ],
    published |-> {}, stale |-> {} ]

\* The mailbox the briefing cycles run on: every envelope is in the inbox or
\* under one of the two labels.
BovSetup ==
  /\ bov.pc = "setup"
  /\ \E fs \in [Ids -> {{INBOX}, {ReadyForBriefing}, {BriefingDone}}] :
       bov' = [ BovIdle EXCEPT !.pc = "running", !.fs = fs ]
  /\ UNCHANGED <<mailbox, grp, nrm, agg, ovl, lbl, cfg, call, arc, mcp>>

\* A briefing cycle starts: it lists the ReadyForBriefing envelopes.
BovFetch ==
  /\ bov.pc = "running"
  /\ \E i \in 1..2 :
       /\ bov.run[i].pc \in {"waiting", "ended"}
       /\ bov' = [ bov EXCEPT
                     !.run[i] = [ pc |-> "publish",
                                  report |-> listByLabel(Ids, bov.fs,
                                                        ReadyForBriefing),
                                  queue |-> <<>>, since |-> {} ] ]
  /\ UNCHANGED <<mailbox, grp, nrm, agg, ovl, lbl, cfg, call, arc, mcp>>

\* The cycle publishes its report as an issue; stale records the envelopes
\* of a created issue that were BriefingDone when it was created.
BovPublish ==
  /\ bov.pc = "running"
  /\ \E i \in 1..2, apiOk \in BOOLEAN :
       LET r == create_github_issue(Omitted, apiOk)
           report == bov.run[i].report
       IN  /\ bov.run[i].pc = "publish"
           /\ bov' = [ bov EXCEPT
                !.run[i].pc = IF r.success /\ report # {} THEN "mark"
                              ELSE "ended",
                !.run[i].queue = IF r.success THEN SetToSeq(report) ELSE <<>>,
                !.published = IF r.created # <<>> THEN @ \cup report ELSE @,
                !.stale = IF r.created # <<>>
                          THEN @ \cup { id \in report :
                                          BriefingDone \in bov.fs[id] }
                          ELSE @ ]
  /\ UNCHANGED <<mailbox, grp, nrm, agg, ovl, lbl, cfg, call, arc, mcp>>

\* The cycle marks the next envelope of its report done; the other cycle,
\* when it has listed and not yet published, is overtaken on that envelope.
BovMark ==
  /\ bov.pc = "running"
  /\ \E i \in 1..2, ok \in BOOLEAN :
       LET queue == bov.run[i].queue
           id == Head(queue)
           r == markDone(bov.fs, id, ok)
           j == 3 - i
       IN  /\ bov.run[i].pc = "mark"
           /\ bov' = [ bov EXCEPT
                !.fs = r.folders,
                !.run[i].queue = Tail(queue),
                !.run[i].pc = IF Tail(queue) = <<>> THEN "ended" ELSE "mark",
                !.run[j].since = IF r.succeeded /\ bov.run[j].pc = "publish"
                                 THEN @ \cup {id} ELSE @ ]
  /\ UNCHANGED <<mailbox, grp, nrm, agg, ovl, lbl, cfg, call, arc, mcp>>

BovNext == BovSetup \/ BovFetch \/ BovPublish \/ BovMark

\* ------------------------------------------------------- specification
Init ==
  /\ present = {}
  /\ thread = [ id \in Ids |-> "t1" ]
  /\ folders = [ id \in Ids |-> {} ]
  /\ seen = [ id \in Ids |-> FALSE ]
  /\ published = {}
  /\ cls = ClsIdle
  /\ brf = BrfIdle
  /\ grp = GrpIdle
  /\ nrm = NrmIdle
  /\ agg = AggIdle
  /\ ovl = OvlIdle
  /\ bov = BovIdle
  /\ mcp = McpIdle
  /\ arc = ArcIdle
  /\ call = CallIdle
  /\ cfg = CfgIdle
  /\ lbl = LblIdle

Next ==
  \/ Arrive
  \/ ClsStart
  \/ ClsThread
  \/ ClsEmail
  \/ ClsCrash
  \/ BrfStart
  \/ BrfPublish
  \/ BrfMark
  \/ BrfCrash

Spec == Init /\ [][Next]_vars

\* The cycles together with the handling of replies to processed threads.
ReplyNext == Next \/ handleNewReplyInThread
ReplySpec == Init /\ [][ReplyNext]_vars

\* Two cycles over one mailbox, their steps interleaved in every way.
OverlapSpec == Init /\ [][OvlNext]_vars

\* Two runs of the CLI ensuring the labels of one account.
LabelSpec == Init /\ [][LblNext]_vars

\* The start of each program under every environment.
ConfigSpec == Init /\ [][CfgNext]_vars

\* One call under every sequence of answers of the service.
CallSpec == Init /\ [][CallNext]_vars

\* The two scripts on every command line of up to MaxArgs arguments.
ArchiveSpec == Init /\ [][ArcNext]_vars

\* A run of one of the scripts while no cycle has touched the mailbox, or a
\* step of a cycle while no script has been run.
ScriptRun ==
  /\ present = {}
  /\ cls = ClsIdle
  /\ brf = BrfIdle
  /\ ArcNext
CycleStep == arc = ArcIdle /\ Next
RunNext == ScriptRun \/ CycleStep
RunSpec == Init /\ [][RunNext]_vars

\* The MCP server serving up to MaxRequests requests over one inbox listing.
McpSpec == Init /\ [][McpNext]_vars

\* Two briefing cycles over one mailbox, each run again and again, their
\* steps interleaved in every way.
BriefOverlapSpec == Init /\ [][BovNext]_vars

\* ThreadGrouper on its own: every listing of up to MaxGroupLen envelopes.
GroupSpec == Init /\ [][GrpNext]_vars

\* normalizeSubject on its own: every subject of up to MaxSubjectLen tokens.
NormSpec == Init /\ [][NrmNext]_vars

\* generateBriefing on its own: every account of up to MaxAggLen envelopes.
AggSpec == Init /\ [][AggNext]_vars

\* The briefing steps that succeed: GitHub accepts the issue, the label swap
\* of the next id goes through.
BrfPublishOK == BrfPublish /\ brf'.pc \in {"mark", "done"}
BrfMarkOK == BrfMark /\ brf'.succeeded # brf.succeeded

\* The briefing workflow is started again and again by its schedule, GitHub
\* eventually accepts an issue and a label swap eventually goes through.
LiveSpec ==
  /\ Spec
  /\ WF_vars(BrfStart)
  /\ SF_vars(BrfPublishOK)
  /\ SF_vars(BrfMarkOK)

\* ------------------------------------------------------------- claims

\* C1: in every reachable state no envelope carries both the ReadyForBriefing
\* label and the BriefingDone label.
C1_AtMostOneLabel ==
  \A id \in Ids :
    ~(ReadyForBriefing \in folders[id] /\ BriefingDone \in folders[id])

\* C1 witness: an envelope went through both transitions while the
\* classification cycle that archived it is still running its fallback pass.
C1_Witness ==
  \E id \in present :
    /\ BriefingDone \in folders[id]
    /\ id \in cls.moved
    /\ cls.pc = "fallback"
    /\ id \in Range(cls.queue)

C3_MarkDoneFrame ==
  [][ ( /\ brf.pc = "mark"
        /\ brf'.pc \in {"mark", "done"}
        /\ brf.queue # <<>>
        /\ brf'.queue = Tail(brf.queue) )
      => \A id \in Ids \ brf.report :
           folders'[id] = folders[id] /\ seen'[id] = seen[id] ]_vars

\* C3 witness: markDone has swapped an id of its set while an envelope outside
\* the set, labeled in between, still carries ReadyForBriefing.
C3_Witness ==
  /\ brf.pc \in {"mark", "done"}
  /\ brf.succeeded # {}
  /\ \E id \in present \ brf.report : ReadyForBriefing \in folders[id]

Pending(id) == INBOX \in folders[id] /\ ~Labelled(folders, id)

\* C7 (as claimed): when a classification cycle has ended, every envelope it
\* left Pending by a classification error is in the input of the next cycle,
\* the unread inbox listing.
C7_Original ==
  cls.pc \in {"completed", "aborted"} =>
    \A id \in (cls.errT \cup cls.errF) :
      Pending(id) => id \in Range(getUnreadEmails(present, folders, seen))

C9_MarkDonePartialFailure ==
  brf.pc \in {"mark", "done"} =>
    /\ \A id \in brf.report :
         id \in brf.succeeded <=>
           (BriefingDone \in folders[id] /\ ReadyForBriefing \notin folders[id])
    /\ \A id \in brf.failed :
         ReadyForBriefing \in folders[id] /\ BriefingDone \notin folders[id]
    /\ brf.succeeded \cap brf.failed = {}
    /\ brf.succeeded \cup brf.failed = brf.report \ Range(brf.queue)
    /\ brf.pc = "done" => brf.succeeded \cup brf.failed = brf.report

\* C9 witness: markDone returned with a failed id and a succeeded id that
\* comes after it.
C9_Witness ==
  /\ brf.pc = "done"
  /\ \E f \in brf.failed, m \in brf.succeeded : m > f

\* ------------------------------------------------------------------- C10
\* The envelopes of the clusters, and the clusters an envelope is a member of.
ClusterOf(c) == { c.emails[i] : i \in 1..Len(c.emails) }
ClustersWith(e) == { i \in 1..Len(grp.output) : e \in ClusterOf(grp.output[i]) }
SharesSubject(e) ==
  \E o \in Range(grp.input) :
    o.id # e.id /\ normalizeSubject(o.subject) = normalizeSubject(e.subject)

\* C10 as stated: the clusters of the ThreadGrouper partition its input -
\* every input envelope is in exactly one cluster, no cluster holds an
\* envelope that was not in the input, and an envelope that shares its
\* normalized subject with no other envelope forms a cluster of one member.
C10_Original ==
  grp.pc = "grouped" =>
    /\ \A e \in Range(grp.input) : Cardinality(ClustersWith(e)) = 1
    /\ \A i \in 1..Len(grp.output) : ClusterOf(grp.output[i]) \subseteq Range(grp.input)
    /\ \A e \in Range(grp.input) :
         ~SharesSubject(e) =>
           \E i \in 1..Len(grp.output) : ClusterOf(grp.output[i]) = {e}

\* C10 amended: no cluster holds an envelope that was not in the input, no
\* envelope is in two clusters or twice in one, an input envelope is in
\* exactly one cluster when another input envelope has the same normalized
\* subject and in no cluster otherwise, and every cluster has at least two
\* members, all of one normalized subject.
C10_ClustersOfSharedSubjects ==
  grp.pc = "grouped" =>
    /\ \A i \in 1..Len(grp.output) :
         /\ ClusterOf(grp.output[i]) \subseteq Range(grp.input)
         /\ Len(grp.output[i].emails) = Cardinality(ClusterOf(grp.output[i]))
         /\ Len(grp.output[i].emails) >= 2
         /\ \A e \in ClusterOf(grp.output[i]) :
              normalizeSubject(e.subject) = grp.output[i].threadKey
    /\ \A e \in Range(grp.input) :
         Cardinality(ClustersWith(e)) = (IF SharesSubject(e) THEN 1 ELSE 0)

\* C10 witness: a grouped listing in which two envelopes share a normalized
\* subject and form a cluster while a third, alone in its subject, is in none.
C10_Witness ==
  /\ grp.pc = "grouped"
  /\ Len(grp.output) = 1
  /\ \E e \in Range(grp.input) : ~SharesSubject(e) /\ ClustersWith(e) = {}
  /\ \E e \in Range(grp.input) : SharesSubject(e) /\ ClustersWith(e) = {1}

\* ------------------------------------------------------------------- C11
\* C11: subject normalization is idempotent - normalizing the normalized
\* subject gives the normalized subject again, for every subject.
C11_Original ==
  nrm.pc = "normalized" => nrm.again = nrm.key

\* ------------------------------------------------------------------- C12
\* C12: normalization strips every leading reply/forward marker, however
\* many are stacked and in any letter case - the normalized subject never
\* begins with a marker, and the reply to a message gets the key of the
\* message it replies to.
C12_Original ==
  nrm.pc = "normalized" =>
    /\ nrm.key = <<>> \/ ~IsMarker(nrm.key[1])
    /\ nrm.reply = nrm.key

\* ------------------------------------------------------------------- C13
\* C13: in every cluster of the ThreadGrouper the members are in ascending
\* order of their date, latest is the last member of that sequence, and no
\* member has a date later than latest.
C13_MembersAscendingLatestLast ==
  grp.pc = "grouped" =>
    \A i \in 1..Len(grp.output) :
      LET c == grp.output[i]
      IN /\ \A a, b \in 1..Len(c.emails) :
              a < b => c.emails[a].date <= c.emails[b].date
         /\ c.latestEmail = c.emails[Len(c.emails)]
         /\ \A m \in ClusterOf(c) : m.date <= c.latestEmail.date

\* C13 witness: a cluster whose members were listed with the later one first
\* and are in date order in the cluster.
C13_Witness ==
  /\ grp.pc = "grouped"
  /\ \E i \in 1..Len(grp.output) :
       LET c == grp.output[i]
       IN /\ c.emails[1].id > c.emails[2].id
          /\ c.emails[1].date < c.emails[2].date
          /\ c.latestEmail = c.emails[Len(c.emails)]

\* ------------------------------------------------------------------- C14
\* The date of the latest email of an entry, and the place in the listing of
\* the first processed email of a thread key.
LatestDate(entry) ==
  CHOOSE d \in { entry.emails[i].date : i \in 1..Len(entry.emails) } :
    \A i \in 1..Len(entry.emails) : entry.emails[i].date <= d
FirstListed(k) ==
  CHOOSE i \in 1..Len(agg.mail) :
    /\ agg.mail[i].threadKey = k /\ agg.mail[i].place = ReadyForBriefing
    /\ \A j \in 1..(i - 1) :
         ~(agg.mail[j].threadKey = k /\ agg.mail[j].place = ReadyForBriefing)

\* C14 as stated: the entries of a briefing are sorted by the date of each
\* entry's latest member, descending, and entries with equal latest dates are
\* in the order of the input.
C14_Original ==
  agg.pc = "generated" =>
    \A i, j \in 1..Len(agg.entries) :
      i < j =>
        \/ LatestDate(agg.entries[i]) > LatestDate(agg.entries[j])
        \/ /\ LatestDate(agg.entries[i]) = LatestDate(agg.entries[j])
           /\ FirstListed(agg.entries[i].threadKey)
                < FirstListed(agg.entries[j].threadKey)

\* C14 amended: the entries of a briefing are in the order in which their
\* thread keys first appear in the list of processed emails, and the emails
\* of an entry are in the order of that list; nothing is sorted by date.
C14_EntriesInListingOrder ==
  agg.pc = "generated" =>
    /\ \A i, j \in 1..Len(agg.entries) :
         i < j => FirstListed(agg.entries[i].threadKey)
                    < FirstListed(agg.entries[j].threadKey)
    /\ \A i \in 1..Len(agg.entries) :
         \A a, b \in 1..Len(agg.entries[i].emails) :
           a < b => agg.entries[i].emails[a].id < agg.entries[i].emails[b].id

\* C14 witness: a briefing of two entries, the first with the earlier latest
\* date, the second a conversation.
C14_Witness ==
  /\ agg.pc = "generated"
  /\ Len(agg.entries) = 2
  /\ LatestDate(agg.entries[1]) < LatestDate(agg.entries[2])
  /\ agg.entries[2].kind = "conversation"

\* ------------------------------------------------------------------- C15
\* The envelopes of the account with a thread key, those of them that are
\* ready for the briefing, the latest of a set of envelopes (the last listed
\* of the latest dated), and the entries of a thread key.
MembersOf(k) == { e \in Range(agg.mail) : e.threadKey = k }
ReadyOf(k) == { e \in MembersOf(k) : e.place = ReadyForBriefing }
LatestOf(ms) ==
  CHOOSE e \in ms : \A o \in ms : o.date < e.date \/ (o.date = e.date /\ o.id <= e.id)
EntriesOf(k) == { i \in 1..Len(agg.entries) : agg.entries[i].threadKey = k }
Covered == UNION { ClusterOf(agg.entries[i]) : i \in 1..Len(agg.entries) }

\* C15 as stated: one entry for every cluster whose latest member is ready
\* for the briefing and none for any other cluster - an individual entry for
\* a cluster of one member, a conversation entry covering all members for a
\* larger one - and the envelopes the report covers are exactly the members
\* of the clusters that got an entry.
C15_Original ==
  agg.pc = "generated" =>
    /\ \A k \in AggKeys :
         IF MembersOf(k) # {} /\ LatestOf(MembersOf(k)).place = ReadyForBriefing
         THEN \E i \in 1..Len(agg.entries) :
                /\ EntriesOf(k) = {i}
                /\ ClusterOf(agg.entries[i]) = MembersOf(k)
                /\ agg.entries[i].kind =
                     (IF Cardinality(MembersOf(k)) = 1 THEN "individual"
                      ELSE "conversation")
         ELSE EntriesOf(k) = {}
    /\ Covered = UNION { MembersOf(agg.entries[i].threadKey) :
                           i \in 1..Len(agg.entries) }

\* C15 amended: one entry for every thread key that has an envelope ready
\* for the briefing and none for any other key; the entry covers exactly the
\* ready envelopes of its key, each once - an individual entry for one, a
\* conversation entry for more - whatever the label of the thread's latest
\* envelope; the envelopes the report covers are exactly the ready ones.
C15_EntryPerReadyThread ==
  agg.pc = "generated" =>
    /\ \A k \in AggKeys :
         IF ReadyOf(k) # {}
         THEN \E i \in 1..Len(agg.entries) :
                /\ EntriesOf(k) = {i}
                /\ ClusterOf(agg.entries[i]) = ReadyOf(k)
                /\ Len(agg.entries[i].emails) = Cardinality(ReadyOf(k))
                /\ agg.entries[i].kind =
                     (IF Cardinality(ReadyOf(k)) = 1 THEN "individual"
                      ELSE "conversation")
         ELSE EntriesOf(k) = {}
    /\ Covered = { e \in Range(agg.mail) : e.place = ReadyForBriefing }

\* C15 witness: a briefing with a conversation entry for a thread whose
\* latest envelope is not ready for the briefing.
C15_Witness ==
  /\ agg.pc = "generated"
  /\ \E i \in 1..Len(agg.entries) :
       /\ agg.entries[i].kind = "conversation"
       /\ LatestOf(MembersOf(agg.entries[i].threadKey)).place # ReadyForBriefing

\* ------------------------------------------------------------------- C16
\* C16: an envelope classified NeedsResponse is not mutated by the system, in
\* that cycle or any later one - it is in the inbox, unread (no Seen flag),
\* and carries neither ReadyForBriefing nor BriefingDone.
C16_Original ==
  \A id \in cls.nr :
    /\ INBOX \in folders[id]
    /\ ~seen[id]
    /\ ~Labelled(folders, id)

LabelState(fs, id) ==
  IF BriefingDone \in fs[id] THEN "BriefingDone"
  ELSE IF ReadyForBriefing \in fs[id] THEN "ReadyForBriefing"
  ELSE "Pending"
Forward(id) ==
  \/ LabelState(folders', id) = LabelState(folders, id)
  \/ LabelState(folders, id) = "Pending"
       /\ LabelState(folders', id) = "ReadyForBriefing"
  \/ LabelState(folders, id) = "ReadyForBriefing"
       /\ LabelState(folders', id) = "BriefingDone"

\* C18 as stated: label state only moves forward - no step takes an envelope
\* from BriefingDone back to ReadyForBriefing or Pending, or from
\* ReadyForBriefing back to the inbox, also when a reply arrives in its thread.
C18_Original ==
  [][\A id \in present : Forward(id)]_vars

\* C18 amended: the steps of the classification and the briefing cycle only
\* move label state forward and no step takes an envelope out of
\* BriefingDone; the one backward step is the thread update handling, which
\* moves the ReadyForBriefing envelopes of a thread with a new unread reply
\* in the inbox back to the inbox, without a label.
C18_ForwardExceptThreadUpdate ==
  [][\A id \in present :
       \/ Forward(id)
       \/ /\ handleNewReplyInThread
          /\ folders[id] = {ReadyForBriefing}
          /\ folders'[id] = {INBOX}
          /\ \E r \in present :
               r # id /\ thread[r] = thread[id] /\ Pending(r) /\ ~seen[r]]_vars

\* C18 witness: an envelope that carried ReadyForBriefing in an ended
\* classification cycle is back in the inbox without a label.
C18_Witness ==
  \E id \in cls.moved : cls.pc = "completed" /\ folders[id] = {INBOX}

\* ------------------------------------------------------------------- C19
\* Both cycles have ended, and the folders of the two sequential executions
\* of the same two cycles on the same mailbox.
OvlEnded ==
  ovl.pc = "running" /\ ovl.run[1].pc = "ended" /\ ovl.run[2].pc = "ended"
FirstThenSecond == cycleAlone(ovl.cycle[2], cycleAlone(ovl.cycle[1], ovl.first)).fs
SecondThenFirst == cycleAlone(ovl.cycle[1], cycleAlone(ovl.cycle[2], ovl.first)).fs
OvlOneLabel ==
  \A id \in Ids :
    ~(ReadyForBriefing \in ovl.now.fs[id] /\ BriefingDone \in ovl.now.fs[id])

\* C19 as stated: whatever the interleaving of two cycles, the labels and the
\* inbox placement of every envelope at the end are those of one sequential
\* execution of the two cycles, and no state of the interleaving has an
\* envelope with both labels.
C19_Original ==
  /\ OvlOneLabel
  /\ OvlEnded => ovl.now.fs \in {FirstThenSecond, SecondThenFirst}

\* C19 amended: whatever the interleaving of two cycles, each envelope ends
\* with the labels and the inbox placement it has after one of the two
\* sequential executions of the cycles - not necessarily the same execution
\* for every envelope - and no state of the interleaving has an envelope with
\* both labels.
C19_EachEnvelopeAsInSomeOrder ==
  /\ OvlOneLabel
  /\ OvlEnded =>
       \A id \in Ids :
         ovl.now.fs[id] \in {FirstThenSecond[id], SecondThenFirst[id]}

\* C19 witness: the two cycles have ended with a mailbox that neither
\* sequential execution produces.
C19_Witness ==
  /\ OvlEnded
  /\ ovl.now.fs # FirstThenSecond
  /\ ovl.now.fs # SecondThenFirst

\* ------------------------------------------------------------------- C20
\* C20: ensureLabelsExist is done before the run fetches any envelope, after
\* it succeeded both required labels exist, and a label that exists already
\* - also one that an overlapping run created between this run's listing and
\* its create - is a success and never the error that ends the run.
C20_Original ==
  \A r \in Runs :
    /\ lbl.run[r].pc = "fetched" => lbl.run[r].labels = <<>>
    /\ lbl.run[r].pc \in {"ensured", "fetched"} =>
         Range(REQUIRED_LABELS) \subseteq lbl.folders
    /\ lbl.run[r].error # "folder exists"

\* C21: a program started with one of its required environment variables
\* missing (GMAIL_EMAIL, GMAIL_APP_PASSWORD and GMAIL_DISPLAY_NAME for
\* archive-emails and read-email, GITHUB_TOKEN for the MCP server) never
\* issues a himalaya command or a GitHub request, and once it has tested its
\* environment it has exited with status 1.
C21_Required(program) ==
  CASE program \in {"archive-emails", "read-email"} ->
         {"GMAIL_EMAIL", "GMAIL_APP_PASSWORD", "GMAIL_DISPLAY_NAME"}
    [] program = "mcp-server" -> {"GITHUB_TOKEN"}
    [] OTHER -> {}
C21_Misconfigured ==
  /\ cfg.pc # "idle"
  /\ \E v \in C21_Required(cfg.program) : cfg.env[v] # "value"
C21_ConfigErrorIsFatal ==
  C21_Misconfigured =>
    /\ cfg.issued = {}
    /\ cfg.pc \in {"started", "exited"}
    /\ cfg.pc = "exited" => cfg.exit = 1

\* The MCP server was started without GITHUB_TOKEN, the mail variables being
\* set, and has exited with status 1.
C21_Witness ==
  /\ cfg.program = "mcp-server"
  /\ cfg.env["GITHUB_TOKEN"] = "unset"
  /\ cfg.env["GMAIL_EMAIL"] = "value"
  /\ cfg.env["GMAIL_APP_PASSWORD"] = "value"
  /\ cfg.pc = "exited"
  /\ cfg.exit = 1

\* C22: when a cycle has been cancelled, whatever step it had reached, every
\* envelope of the mailbox is either fully transitioned (out of the inbox and
\* under a label) or fully Pending (in the inbox, under no label): none is
\* labelled and still in the inbox, none is out of the inbox and unlabelled.
C22_Transitioned(id) == INBOX \notin folders[id] /\ Labelled(folders, id)
C22_CancelLeavesNoHalfStep ==
  (cls.pc = "crashed" \/ brf.pc = "crashed") =>
    \A id \in present : Pending(id) \/ C22_Transitioned(id)

\* The classification cycle was cancelled between two envelopes: one it had
\* moved under ReadyForBriefing, the other is still Pending.
C22_Witness ==
  /\ cls.pc = "crashed"
  /\ \E id \in cls.moved : C22_Transitioned(id)
  /\ \E id \in present \ cls.moved : Pending(id) /\ ~seen[id]

\* C23: a call whose first attempt fails transiently is tried again, at most
\* MaxAnswers - 1 times, the n-th retry after a delay of
\* min(1000 * 2^n, 30000) ms, and a call that fails non-transiently is made
\* once and ends as an error of the cycle (an error result or a thrown error).
C23_Surfaced == {"error_result", "thrown"}
C23_Original ==
  call.pc = "returned" =>
    /\ call.attempts <= MaxAnswers
    /\ Len(call.delays) = call.attempts - 1
    /\ \A n \in 1..Len(call.delays) : call.delays[n] = retryDelay(n - 1)
    /\ (call.answers[1] = "transient" /\ Len(call.answers) > 1)
         => call.attempts > 1
    /\ call.answers[1] = "permanent"
         => call.attempts = 1 /\ call.outcome \in C23_Surfaced

\* C24: when the move of archive-emails fails, the run prints a failure entry
\* and not the success message, and the success message is printed only after
\* a move that ended with exit code 0; when a classification cycle has
\* completed, every envelope of its batch is recorded as moved (success), as
\* needing a response or already labelled (skip), or as a failed move or
\* failed classification (failure).
C24_ArchiveEnded ==
  /\ arc.script = "archive-emails"
  /\ arc.pc = "exited"
  /\ arc.commands # <<>>
C24_Accounted ==
  cls.moved \cup cls.nr \cup cls.again \cup cls.failed \cup cls.errT
    \cup cls.errF
C25_Limit ==
  IF mcp.args = <<>> THEN DefaultMaxEmails
  ELSE IF mcp.args[1] < 0 THEN 0 ELSE mcp.args[1]
C25_Original ==
  (mcp.tool = "list_unread_emails" /\ mcp.response.success) =>
    /\ mcp.response.count <= C25_Limit
    /\ Len(mcp.response.emails) <= C25_Limit

\* C26: create_github_issue sends a request to GitHub, and creates an issue,
\* only for a repo of the form owner/repo (two non-empty parts, one slash) or
\* an omitted repo; any other repo string gets an error result and no
\* request; with repo omitted the issue is created in
\* camwest/ai-email-briefings.
C26_OwnerRepo(repoArg) ==
  Len(repoArg) = 2 /\ repoArg[1] # "" /\ repoArg[2] # ""
C26_Original ==
  mcp.tool = "create_github_issue" =>
    /\ (mcp.args # Omitted /\ ~C26_OwnerRepo(mcp.args)) =>
         /\ ~mcp.request
         /\ mcp.created = <<>>
         /\ ~mcp.response.success
         /\ mcp.response.isError
    /\ (mcp.args = Omitted /\ mcp.created # <<>>) => mcp.created = DefaultRepo

\* C27: a list_unread_emails call that himalaya answers returns exactly the
\* first max_emails (50 when omitted) envelopes of the listing without the
\* Seen flag, in listing order, with count the number of emails returned and
\* success true also when there is none; and no request changes the listing.
C27_Unread ==
  SelectSeq([ i \in 1..Len(mcp.listing) |-> i ], LAMBDA i : ~mcp.listing[i])
C27_Limit ==
  IF mcp.args = <<>> THEN DefaultMaxEmails
  ELSE IF mcp.args[1] < 0 THEN 0 ELSE mcp.args[1]
C27_Expected ==
  SubSeq(C27_Unread, 1,
         IF C27_Limit < Len(C27_Unread) THEN C27_Limit ELSE Len(C27_Unread))
C27_Original ==
  /\ []((mcp.tool = "list_unread_emails" /\ mcp.failure = "none") =>
          /\ mcp.response.emails = C27_Expected
          /\ mcp.response.count = Len(mcp.response.emails)
          /\ mcp.response.success
          /\ ~mcp.response.isError)
  /\ [][mcp.pc = "serving" => mcp'.listing = mcp.listing]_vars

\* C28: a request to a known tool that fails (himalaya error, unparseable
\* JSON, invalid repo, GitHub error) is answered with success false and
\* isError true and raises nothing; only a request naming an unknown tool
\* raises an error; no failed request creates an issue or answers success
\* true; and the server goes on serving: a request after a failed one that
\* meets no failure itself is answered with success true.
C28_KnownTools == {"list_unread_emails", "create_github_issue"}
C28_FailuresAreValues ==
  mcp.pc # "idle" =>
    /\ mcp.pc = "serving"
    /\ (mcp.tool \in C28_KnownTools /\ mcp.failure # "none") =>
         /\ ~mcp.response.success
         /\ mcp.response.isError
         /\ ~mcp.raised
    /\ mcp.raised <=> mcp.tool = "unknown"
    /\ Failed(mcp) => (mcp.created = <<>> /\ ~mcp.response.success)
    /\ (mcp.afterFailure /\ mcp.tool \in C28_KnownTools /\ mcp.failure = "none")
         => mcp.response.success

\* A request failed, and the request after it listed an unread envelope.
C28_Witness ==
  /\ mcp.afterFailure
  /\ mcp.tool = "list_unread_emails"
  /\ mcp.response.success
  /\ mcp.response.count = 1
  /\ mcp.issues = 0

\* C29 as stated: no created issue has a source envelope that was already
\* BriefingDone when the issue was created.
C29_Original == bov.stale = {}

\* C29 (amended): a briefing cycle never lists an envelope that is
\* BriefingDone, and an envelope that is BriefingDone when an issue with it is
\* created was marked done by the other cycle after the publishing cycle had
\* listed it and before it published.
C29_Publishing(i) == bov.run[i].pc = "publish" /\ bov'.run[i].pc # "publish"
C29_Listing(i) == bov.run[i].pc # "publish" /\ bov'.run[i].pc = "publish"
C29_DuplicateOnlyByOverlap ==
  [][/\ \A i \in 1..2 :
          C29_Listing(i) =>
            \A id \in bov'.run[i].report : BriefingDone \notin bov.fs[id]
     /\ \A i \in 1..2 :
          C29_Publishing(i) => (bov'.stale \ bov.stale) \subseteq bov.run[i].since
     /\ (\A i \in 1..2 : ~C29_Publishing(i)) => bov'.stale = bov.stale]_vars

\* An issue was created with an envelope the other cycle had already marked
\* BriefingDone.
C29_Witness ==
  /\ bov.stale # {}
  /\ \E id \in bov.stale : bov.fs[id] = {BriefingDone}
  /\ bov.stale \subseteq bov.published

\* C30: archive-emails issues one move out of INBOX whose ids are exactly the
\* arguments that are neither an account flag nor directly after one, in the
\* order given, in the account named after the first flag (the default
\* account without a flag or a name after it), and with no such argument it
\* exits with status 1 without a move; read-email exits with status 1 and
\* reads nothing unless exactly one such argument remains, which it reads.
C30_IdPositions ==
  SelectSeq([ i \in 1..Len(arc.args) |-> i ],
            LAMBDA i : /\ arc.args[i] \notin AccountFlags
                       /\ \A j \in {i - 1} \cap (1..Len(arc.args)) :
                            arc.args[j] \notin AccountFlags)
C30_Ids == [ k \in 1..Len(C30_IdPositions) |-> arc.args[C30_IdPositions[k]] ]
C30_FlagPositions ==
  { i \in 1..Len(arc.args) : arc.args[i] \in AccountFlags }
C30_Account ==
  IF C30_FlagPositions = {} THEN Null
  ELSE LET first == CHOOSE i \in C30_FlagPositions :
                      \A j \in C30_FlagPositions : i <= j
       IN  IF first < Len(arc.args) THEN arc.args[first + 1] ELSE Null
C30_MovesExactlyTheIds ==
  arc.pc = "exited" =>
    /\ (arc.script = "archive-emails" /\ C30_Ids # <<>>) =>
         arc.commands = << [ verb |-> "move", account |-> C30_Account,
                             from |-> INBOX, to |-> AllMail,
                             ids |-> C30_Ids ] >>
    /\ (arc.script = "archive-emails" /\ C30_Ids = <<>>) =>
         arc.exit = 1 /\ arc.commands = <<>>
    /\ (arc.script = "read-email" /\ Len(C30_Ids) # 1) =>
         arc.exit = 1 /\ arc.commands = <<>>
    /\ (arc.script = "read-email" /\ Len(C30_Ids) = 1) =>
         /\ Len(arc.commands) = 1
         /\ arc.commands[1].verb = "read"
         /\ arc.commands[1].ids = C30_Ids
         /\ arc.commands[1].account = C30_Account

\* archive-emails was run with an account flag, its account and one id, and
\* has moved that id in that account.
C30_Witness ==
  /\ arc.script = "archive-emails"
  /\ arc.pc = "exited"
  /\ \E i \in 1..Len(arc.args) : arc.args[i] \in AccountFlags
  /\ arc.account = "work"
  /\ arc.emailIds = <<"17">>
  /\ Len(arc.commands) = 1
  /\ arc.result = "ok"
====
